---- MODULE Spec2Model ----
(***************************************************************************)
(* Model of NNet's converters/nnet2onnx.py: the conversion of a .nnet      *)
(* array model (weights, biases) into an ONNX graph of MatMul / Add / Relu *)
(* nodes, and the command entry point main.                                *)
(*                                                                         *)
(* One nnet2onnx call is a sequence of steps driven by pc:                 *)
(*   check_ext -> read -> validate* -> build* -> make_model -> save -> end *)
(* preceded by main's argument parsing and followed by main's exit and    *)
(* the interpreter's shutdown.  Every print may raise (closed or full       *)
(* stdout, unencodable text), and the flush of stdout and stderr at        *)
(* shutdown may fail: both are the environment's choice.  Every path       *)
(* writes to one of the two streams before the shutdown.                   *)
(***************************************************************************)
EXTENDS Integers, Sequences, FiniteSets, TLC

\* ---------------------------------------------------------------- bounds
MaxLayers == 2
MaxDim == 2
MaxX == 2

\* ------------------------------------------------------- small utilities
Min(a, b) == IF a < b THEN a ELSE b

Max(a, b) == IF a < b THEN b ELSE a

Range(s) == {s[k] : k \in 1..Len(s)}

RECURSIVE SumTo(_, _)
SumTo(f, n) == IF n = 0 THEN 0 ELSE f[n] + SumTo(f, n - 1)

\* shape of a 2-D array (numpy .shape); the arrays used have >= 1 row
Rows(w) == Len(w)

Cols(w) == Len(w[1])

\* ------------------------------------------------------------ the inputs
\* A file name is the sequence of its pieces; the last piece is its suffix.
NnetFiles == {<<"net", ".nnet">>, <<"net", ".txt">>, <<"a", ".nnet", ".bak", ".nnet">>}

NoFile == <<>>

OnnxFileArgs == {NoFile, <<"out", ".onnx">>}

InputNames == {"X", "W0", "R0"}

OutputNames == {"y_out", "H0", "X"}

FillSeeds == {0, 1}

XVals == 0..MaxX

Fill(r, c, s, l) == [a \in 1..r |-> [b \in 1..c |-> ((a + 2 * b + s + l) % 3) - 1]]

BiasFill(n, s, l) == [a \in 1..n |-> ((a + s + l) % 3) - 1]

Dims == 1..MaxDim

ShapedModels ==
    { [weights |-> [l \in 1..n |-> Fill(sh[l][1], sh[l][2], s, l)],
       biases  |-> [l \in 1..n |-> BiasFill(sh[l][3], s, l)]] :
        <<n, sh, s>> \in UNION { {<<n, sh, s>> : sh \in [1..n -> Dims \X Dims \X Dims],
                                                  s \in FillSeeds} : n \in 1..MaxLayers } }

\* the two-layer network of the documented scenario
ScenarioModel ==
    [weights |-> << <<<<1, 0>>, <<0, 1>>>>, <<<<2, 2>>>> >>,
     biases  |-> << <<0, 0>>, <<1>> >>]

EmptyModel == [weights |-> <<>>, biases |-> <<>>]

Models == ShapedModels \cup {ScenarioModel, EmptyModel}

\* ------------------------------------------------------ nnet2onnx pieces
\* nnetFile.endswith(".nnet")
EndsWithNnet(f) == Len(f) > 0 /\ f[Len(f)] = ".nnet"

\* nnetFile.replace(".nnet", ".onnx"): every occurrence is replaced
ReplaceNnet(f) == [k \in 1..Len(f) |-> IF f[k] = ".nnet" THEN ".onnx" ELSE f[k]]

\* onnxFile = nnetFile.replace(...) if not onnxFile
DefaultOnnxFile(arg, f) == IF arg = NoFile THEN ReplaceNnet(f) ELSE arg

\* zip(weights, biases) stops at the shorter list
ZipLen(ws, bs) == Min(Len(ws), Len(bs))

\* variant: the previous layer's column count is compared instead of its row count
DimensionMismatch_WrongAxis(ws, i, inSize) ==
    Cols(ws[i + 1]) # (IF i > 0 THEN Cols(ws[i]) ELSE inSize)

\* line 55, layers numbered from 0: w.shape[1] != (weights[i-1].shape[0] if i > 0 else inputSize)
DimensionMismatch(ws, i, inSize) ==
    Cols(ws[i + 1]) # (IF i > 0 THEN Rows(ws[i]) ELSE inSize)

\* variant: the bias length is compared with the weight's column count
BiasMismatch_WrongAxis(w, b) == Len(b) # Cols(w)

\* line 59: b.shape[0] != w.shape[0]
BiasMismatch(w, b) == Len(b) # Rows(w)

WeightName(i) == "W" \o ToString(i)

BiasName(i) == "B" \o ToString(i)

MatmulName(i) == "M" \o ToString(i)

HiddenName(i) == "H" \o ToString(i)

ReluName(i) == "R" \o ToString(i)

\* variant: a ReLU after every layer, the last included
HasRelu_EveryLayer(i, n) == i < n

\* line 88: ReLU for all layers except the last
HasRelu(i, n) == i < n - 1

\* line 77
AddName(i, n, outVar) == IF i < n - 1 THEN HiddenName(i) ELSE outVar

MakeNode(op, ins, outs) == [op |-> op, inputs |-> ins, outputs |-> outs]

\* variant: MatMul lists the weight constant before the layer's input
LayerNodes_WeightFirst(i, n, cur, outVar) ==
    << MakeNode("MatMul", <<WeightName(i), cur>>, <<MatmulName(i)>>),
       MakeNode("Add", <<MatmulName(i), BiasName(i)>>, <<AddName(i, n, outVar)>>) >>
    \o (IF HasRelu(i, n)
        THEN << MakeNode("Relu", <<AddName(i, n, outVar)>>, <<ReluName(i)>>) >>
        ELSE << >>)

\* lines 84-90: the nodes appended for layer i
LayerNodes(i, n, cur, outVar) ==
    << MakeNode("MatMul", <<cur, WeightName(i)>>, <<MatmulName(i)>>),
       MakeNode("Add", <<MatmulName(i), BiasName(i)>>, <<AddName(i, n, outVar)>>) >>
    \o (IF HasRelu(i, n)
        THEN << MakeNode("Relu", <<AddName(i, n, outVar)>>, <<ReluName(i)>>) >>
        ELSE << >>)

\* variant: the next layer reads the Add output, bypassing the ReLU
NextInput_SkipsRelu(i, n, outVar) == AddName(i, n, outVar)

\* lines 88-93: the tensor the next layer reads
NextInput(i, n, outVar) == IF HasRelu(i, n) THEN ReluName(i) ELSE AddName(i, n, outVar)

\* numpy astype(float32): exact on the small integers used here
AsFloat32(v) == v

\* lines 80-81
LayerInitializers(i, ws, bs) ==
    << [name |-> WeightName(i), rank |-> 2, val |-> AsFloat32(ws[i + 1])],
       [name |-> BiasName(i), rank |-> 1, val |-> << AsFloat32(bs[i + 1]) >>] >>

\* helper.make_tensor_value_info(name, FLOAT, [None, size])
ValueInfo(name, size) ==
    [name |-> name, elem_type |-> "FLOAT", batch |-> "None", features |-> size]

NoModel == [made |-> FALSE, nodes |-> <<>>, inputs |-> <<>>, outputs |-> <<>>,
            initializer |-> <<>>]

\* lines 96-103
MakeModel(ns, ins, outs, inits) ==
    [made |-> TRUE, nodes |-> ns, inputs |-> ins, outputs |-> outs, initializer |-> inits]

Outcome(kind, layer, code) == [kind |-> kind, layer |-> layer, code |-> code]

Running == Outcome("running", -1, -1)

\* lines 42-47: the handler prints and calls sys.exit(1); an exception raised
\* by the print itself leaves the handler instead
ReadFailureOutcome(printOk) ==
    IF printOk THEN Outcome("SystemExit", -1, 1) ELSE Outcome("PrintError", -1, -1)

\* lines 106-111: save_model and the success print share one try; whatever
\* either raises is handled by a print and sys.exit(1), and an exception
\* raised by the handler's print leaves instead
SaveOutcome(saveOk, printOk, handlerPrintOk) ==
    IF saveOk /\ printOk THEN Outcome("return", -1, -1)
    ELSE IF handlerPrintOk THEN Outcome("SystemExit", -1, 1)
    ELSE Outcome("PrintError", -1, -1)

\* line 124: parse_args ends the process itself: sys.exit(2) after a usage
\* message on stderr, sys.exit(0) after writing the help on stdout.  The
\* write of the help succeeds ("ok"), fails with an OSError that argparse
\* swallows ("swallowed"), or raises (an encoding error, or an OSError where
\* argparse does not swallow it) and leaves main uncaught, status 1
ParseExitCode(parsed, write) ==
    IF parsed = "usage_error" THEN 2
    ELSE IF write = "raised" THEN 1
    ELSE 0

ParseExitVia(parsed, write) ==
    IF parsed = "help" /\ write = "raised" THEN "uncaught" ELSE "SystemExit"

\* interpreter shutdown: when stdout or stderr cannot be flushed, the
\* process status becomes 120 whatever main ended with
ProcessStatus(code, flushOk) == IF flushOk THEN code ELSE 120

\* lines 126-136: how main is left: by returning, by SystemExit, or by the
\* exception its own print raised inside the handler
MainExitVia(o, printOk) ==
    IF o.kind = "return" THEN "return"
    ELSE IF o.kind = "SystemExit" THEN "SystemExit"
    ELSE IF printOk THEN "SystemExit"
    ELSE "uncaught"

\* variant: the handler prints the exception and returns without sys.exit(1)
MainExitCode_SwallowsException(o) == IF o.kind = "SystemExit" THEN o.code ELSE 0

\* lines 126-136, the status main ends with: an Exception is caught and
\* turned into sys.exit(1), or the handler's print raises and the uncaught
\* exception gives status 1 as well; SystemExit is not an Exception and
\* leaves with its own code; a normal return gives 0
MainExitCode(o) ==
    IF o.kind = "return" THEN 0
    ELSE IF o.kind = "SystemExit" THEN o.code
    ELSE 1

VARIABLES nnetFile, onnxFileArg, outputVar, inputVar, normalizeNetwork,
          pc, onnxFile, reader, readResult, weights, biases,
          inputSize, outputSize, numLayers, i,
          graphInputs, graphOutputs, nodes, initializers, currentInput,
          model, saves, disk, outcome, exitCode, exitVia, flushFailed

args == <<nnetFile, onnxFileArg, outputVar, inputVar, normalizeNetwork>>

locals == <<onnxFile, reader, readResult, weights, biases, inputSize, outputSize, numLayers, i>>

graphv == <<graphInputs, graphOutputs, nodes, initializers, currentInput, model>>

exits == <<exitCode, exitVia, flushFailed>>

env == <<saves, disk, outcome, exits>>

vars == <<args, pc, locals, graphv, env>>

Init ==
    /\ nnetFile \in NnetFiles
    /\ onnxFileArg \in OnnxFileArgs
    /\ outputVar \in OutputNames
    /\ inputVar \in InputNames
    /\ normalizeNetwork \in BOOLEAN
    /\ pc = "parse"
    /\ onnxFile = NoFile
    /\ reader = "none"
    /\ readResult = "none"
    /\ weights = <<>>
    /\ biases = <<>>
    /\ inputSize = 0
    /\ outputSize = 0
    /\ numLayers = 0
    /\ i = 0
    /\ graphInputs = <<>>
    /\ graphOutputs = <<>>
    /\ nodes = <<>>
    /\ initializers = <<>>
    /\ currentInput = ""
    /\ model = NoModel
    /\ saves = 0
    /\ disk = {}
    /\ outcome = Running
    /\ exitCode = -1
    /\ exitVia = "none"
    /\ flushFailed = FALSE

\* lines 115-124; what the command line parses to, how the write of the
\* help ends and whether the streams flush at shutdown are the environment's
\* choice
ParseArgs ==
    /\ pc = "parse"
    /\ \E parsed \in {"ok", "usage_error", "help"} :
        IF parsed = "ok"
        THEN /\ pc' = "check_ext"
             /\ UNCHANGED exits
        ELSE \E write \in {"ok", "swallowed", "raised"}, flushOk \in BOOLEAN :
             /\ flushFailed' = ~flushOk
             /\ exitCode' = ProcessStatus(ParseExitCode(parsed, write), flushOk)
             /\ exitVia' = ParseExitVia(parsed, write)
             /\ pc' = "exit"
    /\ UNCHANGED <<args, locals, graphv, saves, disk, outcome>>

\* lines 28-34
CheckExtension ==
    /\ pc = "check_ext"
    /\ IF ~EndsWithNnet(nnetFile)
       THEN /\ outcome' = Outcome("ValueError", -1, -1)
            /\ pc' = "end"
            /\ UNCHANGED onnxFile
       ELSE /\ onnxFile' = DefaultOnnxFile(onnxFileArg, nnetFile)
            /\ pc' = "read"
            /\ UNCHANGED outcome
    /\ UNCHANGED <<args, reader, readResult, weights, biases, inputSize, outputSize,
                   numLayers, i, graphv, saves, disk, exits>>

\* lines 36-51; the reader's result is the environment's choice
ReadFile ==
    /\ pc = "read"
    /\ reader' = IF normalizeNetwork THEN "normalizeNNet" ELSE "readNNet"
    /\ \E r \in {"FileNotFoundError", "Exception", "ok"} :
        /\ readResult' = r
        /\ IF r # "ok"
           THEN /\ \E printOk \in BOOLEAN : outcome' = ReadFailureOutcome(printOk)
                /\ pc' = "end"
                /\ UNCHANGED <<weights, biases, inputSize, outputSize, numLayers>>
           ELSE \E m \in Models :
                /\ weights' = m.weights
                /\ biases' = m.biases
                /\ IF Len(m.weights) = 0
                   THEN /\ outcome' = Outcome("IndexError", -1, -1)
                        /\ pc' = "end"
                        /\ UNCHANGED <<inputSize, outputSize, numLayers>>
                   ELSE /\ inputSize' = Cols(m.weights[1])
                        /\ outputSize' = Rows(m.weights[Len(m.weights)])
                        /\ numLayers' = Len(m.weights)
                        /\ pc' = "validate"
                        /\ UNCHANGED outcome
    /\ UNCHANGED <<args, onnxFile, i, graphv, saves, disk, exits>>

\* lines 54-70: one iteration of the validation loop, or its exit
ValidateLayer ==
    /\ pc = "validate"
    /\ IF i < ZipLen(weights, biases)
       THEN IF DimensionMismatch(weights, i, inputSize)
            THEN /\ outcome' = Outcome("ValueError:Dimension mismatch", i, -1)
                 /\ pc' = "end"
                 /\ UNCHANGED <<i, graphv>>
            ELSE IF BiasMismatch(weights[i + 1], biases[i + 1])
            THEN /\ outcome' = Outcome("ValueError:Bias dimension mismatch", i, -1)
                 /\ pc' = "end"
                 /\ UNCHANGED <<i, graphv>>
            ELSE /\ i' = i + 1
                 /\ UNCHANGED <<pc, outcome, graphv>>
       ELSE /\ graphInputs' = << ValueInfo(inputVar, inputSize) >>
            /\ graphOutputs' = << ValueInfo(outputVar, outputSize) >>
            /\ nodes' = <<>>
            /\ initializers' = <<>>
            /\ currentInput' = inputVar
            /\ i' = 0
            /\ pc' = "build"
            /\ UNCHANGED <<outcome, model>>
    /\ UNCHANGED <<args, onnxFile, reader, readResult, weights, biases, inputSize,
                   outputSize, numLayers, saves, disk, exits>>

\* lines 73-103: one iteration of the construction loop, or the assembly
BuildLayer ==
    /\ pc = "build"
    /\ IF i < numLayers
       THEN /\ initializers' = initializers \o LayerInitializers(i, weights, biases)
            /\ nodes' = nodes \o LayerNodes(i, numLayers, currentInput, outputVar)
            /\ currentInput' = NextInput(i, numLayers, outputVar)
            /\ i' = i + 1
            /\ UNCHANGED <<pc, model>>
       ELSE /\ model' = MakeModel(nodes, graphInputs, graphOutputs, initializers)
            /\ pc' = "save"
            /\ UNCHANGED <<i, nodes, initializers, currentInput>>
    /\ UNCHANGED <<args, onnxFile, reader, readResult, weights, biases, inputSize,
                   outputSize, numLayers, graphInputs, graphOutputs, env>>

\* lines 105-111; whether the write and each print succeed is the
\* environment's choice
SaveModel ==
    /\ pc = "save"
    /\ saves' = saves + 1
    /\ \E saveOk, printOk, handlerPrintOk \in BOOLEAN :
        /\ disk' = IF saveOk THEN disk \cup {[path |-> onnxFile, content |-> model]}
                             ELSE disk
        /\ outcome' = SaveOutcome(saveOk, printOk, handlerPrintOk)
    /\ pc' = "end"
    /\ UNCHANGED <<args, locals, graphv, exits>>

\* lines 126-136 and the interpreter's shutdown
MainExit ==
    /\ pc = "end"
    /\ \E printOk, flushOk \in BOOLEAN :
        /\ exitVia' = MainExitVia(outcome, printOk)
        /\ flushFailed' = ~flushOk
        /\ exitCode' = ProcessStatus(MainExitCode(outcome), flushOk)
    /\ pc' = "exit"
    /\ UNCHANGED <<args, locals, graphv, saves, disk, outcome>>

Next ==
    \/ ParseArgs
    \/ CheckExtension
    \/ ReadFile
    \/ ValidateLayer
    \/ BuildLayer
    \/ SaveModel
    \/ MainExit

Spec == Init /\ [][Next]_vars

\* ------------------------------------------------------------ properties
\* the shape invariants of an array model, stated on the arrays themselves
ShapeInvariant(ws, bs) ==
    \A l \in 1..Len(ws) :
        /\ l > 1 => Len(ws[l][1]) = Len(ws[l - 1])
        /\ Len(bs[l]) = Len(ws[l])

BrokenLayers(ws, bs) ==
    {l \in 0..(Len(ws) - 1) :
        \/ l > 0 /\ Len(ws[l + 1][1]) # Len(ws[l])
        \/ Len(bs[l + 1]) # Len(ws[l + 1])}

Finished == pc \in {"end", "exit"}

CountOp(ns, op) == Cardinality({k \in 1..Len(ns) : ns[k].op = op})

LayerIds == 0..(Len(weights) - 1)

\* C1: a built graph has exactly one MatMul and one Add per layer, one Relu
\* per layer but the last, no other node, and exactly one weight and one bias
\* initializer per layer holding that layer's arrays.
C1_NodeAndInitializerCounts ==
    model.made =>
        /\ CountOp(model.nodes, "MatMul") = Len(weights)
        /\ CountOp(model.nodes, "Add") = Len(weights)
        /\ CountOp(model.nodes, "Relu") = Len(weights) - 1
        /\ Len(model.nodes) = 3 * Len(weights) - 1
        /\ Len(model.initializer) = 2 * Len(weights)
        /\ \A l \in LayerIds :
            /\ model.initializer[2 * l + 1].rank = 2
            /\ model.initializer[2 * l + 1].val = weights[l + 1]
            /\ model.initializer[2 * l + 2].rank = 1
            /\ model.initializer[2 * l + 2].val = << biases[l + 1] >>

C1_Witness == model.made /\ Len(weights) = 2 /\ Len(model.nodes) = 5

\* C2: in a built graph layer l's MatMul reads the declared input (l = 0) or
\* the previous layer's Relu output, and layer l's weight constant; layer l's
\* Add reads that MatMul's output and layer l's bias constant; for every
\* layer but the last the Add's output is the only input of a Relu whose
\* output is the next layer's MatMul input.
C2_LayerWiring ==
    model.made =>
        \A l \in LayerIds :
            /\ model.nodes[3 * l + 1].op = "MatMul"
            /\ model.nodes[3 * l + 1].inputs =
                   << IF l = 0 THEN model.inputs[1].name
                               ELSE model.nodes[3 * l].outputs[1],
                      model.initializer[2 * l + 1].name >>
            /\ l > 0 => model.nodes[3 * l].op = "Relu"
            /\ model.nodes[3 * l + 2].op = "Add"
            /\ model.nodes[3 * l + 2].inputs =
                   << model.nodes[3 * l + 1].outputs[1], model.initializer[2 * l + 2].name >>
            /\ l < Len(weights) - 1 =>
                /\ model.nodes[3 * l + 3].op = "Relu"
                /\ model.nodes[3 * l + 3].inputs = << model.nodes[3 * l + 2].outputs[1] >>
                /\ model.nodes[3 * l + 4].inputs[1] = model.nodes[3 * l + 3].outputs[1]

C2_Witness ==
    /\ model.made
    /\ Len(weights) = 2
    /\ model.nodes[4].op = "MatMul"
    /\ model.nodes[4].inputs[1] = "R0"

\* C3: in a built graph the last layer's Add outputs the caller's output
\* name, that name is the declared output, no node consumes it and no
\* earlier Add outputs it.
C3_OutputTensor ==
    model.made =>
        /\ model.nodes[Len(model.nodes)].op = "Add"
        /\ model.nodes[Len(model.nodes)].outputs = << outputVar >>
        /\ model.outputs[1].name = outputVar
        /\ \A k \in 1..Len(model.nodes) : outputVar \notin Range(model.nodes[k].inputs)
        /\ \A k \in 1..(Len(model.nodes) - 1) :
               model.nodes[k].op = "Add" => model.nodes[k].outputs[1] # outputVar

\* evaluation of a graph as C4 states it: the declared input is one row of
\* shape [1, inputs_0], the nodes run in their listed order, MatMul takes its
\* two operands in the order listed, Add broadcasts, Relu is elementwise
Tensor(rank, val) == [rank |-> rank, val |-> val]

Bind(e, name, t) == [n \in (DOMAIN e) \cup {name} |-> IF n = name THEN t ELSE e[n]]

\* MatMul of two 2-D tensors, operands in the order listed on the node
MatMulOk(a, b) == a.rank = 2 /\ b.rank = 2 /\ Cols(a.val) = Rows(b.val)

MatMulT(a, b) ==
    Tensor(2, [r \in 1..Rows(a.val) |-> [c \in 1..Cols(b.val) |->
        SumTo([k \in 1..Rows(b.val) |-> a.val[r][k] * b.val[k][c]], Rows(b.val))]])

\* Add with multidirectional broadcasting of the two shapes
BroadcastOk(m, n) == m = n \/ m = 1 \/ n = 1

AddOk(a, b) == BroadcastOk(Rows(a.val), Rows(b.val)) /\ BroadcastOk(Cols(a.val), Cols(b.val))

Pick(len, k) == IF len = 1 THEN 1 ELSE k

AddT(a, b) ==
    Tensor(Max(a.rank, b.rank),
           [r \in 1..Max(Rows(a.val), Rows(b.val)) |->
            [c \in 1..Max(Cols(a.val), Cols(b.val)) |->
                a.val[Pick(Rows(a.val), r)][Pick(Cols(a.val), c)]
              + b.val[Pick(Rows(b.val), r)][Pick(Cols(b.val), c)]]])

ReluT(a) ==
    Tensor(a.rank, [r \in 1..Rows(a.val) |-> [c \in 1..Cols(a.val) |-> Max(0, a.val[r][c])]])

\* every tensor name of the graph and what produces it
Producers(g) ==
    [k \in 1..Len(g.inputs) |-> g.inputs[k].name]
    \o [k \in 1..Len(g.initializer) |-> g.initializer[k].name]
    \o [k \in 1..Len(g.nodes) |-> g.nodes[k].outputs[1]]

\* single assignment: no tensor name is produced twice
SingleAssignment(g) ==
    \A a, b \in 1..Len(Producers(g)) : Producers(g)[a] = Producers(g)[b] => a = b

RECURSIVE InitEnv(_, _)
InitEnv(inits, k) ==
    IF k = 0 THEN << >>
    ELSE Bind(InitEnv(inits, k - 1), inits[k].name, Tensor(inits[k].rank, inits[k].val))

NodeOk(nd, e) ==
    /\ \A k \in 1..Len(nd.inputs) : nd.inputs[k] \in DOMAIN e
    /\ nd.op = "MatMul" => MatMulOk(e[nd.inputs[1]], e[nd.inputs[2]])
    /\ nd.op = "Add" => AddOk(e[nd.inputs[1]], e[nd.inputs[2]])

NodeValue(nd, e) ==
    IF nd.op = "MatMul" THEN MatMulT(e[nd.inputs[1]], e[nd.inputs[2]])
    ELSE IF nd.op = "Add" THEN AddT(e[nd.inputs[1]], e[nd.inputs[2]])
    ELSE ReluT(e[nd.inputs[1]])

\* run nodes k..Len(ns); the result is the final environment, or ok = FALSE
\* at the first node whose operands are missing or shape-incompatible
RECURSIVE RunNodes(_, _, _)
RunNodes(ns, k, e) ==
    IF k > Len(ns) THEN [ok |-> TRUE, e |-> e]
    ELSE IF ~NodeOk(ns[k], e) THEN [ok |-> FALSE, e |-> e]
    ELSE RunNodes(ns, k + 1, Bind(e, ns[k].outputs[1], NodeValue(ns[k], e)))

\* the graph run on one input row x
RunGraph(g, x) ==
    RunNodes(g.nodes, 1,
             Bind(InitEnv(g.initializer, Len(g.initializer)), g.inputs[1].name,
                  Tensor(2, << x >>)))

InferenceStatus(g, x) ==
    IF ~SingleAssignment(g) THEN "InvalidGraph"
    ELSE IF ~RunGraph(g, x).ok THEN "ShapeError"
    ELSE "ok"

InferenceOutput(g, x) ==
    IF InferenceStatus(g, x) = "ok" THEN RunGraph(g, x).e[g.outputs[1].name].val[1] ELSE << >>

\* the feed-forward result of an array model: h' = relu(W h + b) for every
\* layer but the last, W h + b for the last
Affine(w, b, h) ==
    [r \in 1..Rows(w) |-> SumTo([k \in 1..Cols(w) |-> w[r][k] * h[k]], Cols(w)) + b[r]]

RECURSIVE FeedForward(_, _, _, _)
FeedForward(ws, bs, h, l) ==
    IF l > Len(ws) THEN h
    ELSE IF l = Len(ws) THEN Affine(ws[l], bs[l], h)
    ELSE FeedForward(ws, bs, [r \in 1..Rows(ws[l]) |-> Max(0, Affine(ws[l], bs[l], h)[r])], l + 1)

EvaluateNetwork(ws, bs, x) == FeedForward(ws, bs, x, 1)

\* C4: evaluating a built graph (a single-assignment graph) on any input row
\* is shape-compatible at every node and gives the array model's
\* feed-forward result.
C4_InferenceMatchesNetwork ==
    (model.made /\ SingleAssignment(model)) =>
        \A x \in [1..inputSize -> XVals] :
            /\ InferenceStatus(model, x) = "ok"
            /\ InferenceOutput(model, x) = EvaluateNetwork(weights, biases, x)

\* the names nnet2onnx generates for a network of n layers
GeneratedNames(n) ==
    UNION { {WeightName(l), BiasName(l), MatmulName(l)} : l \in 0..(n - 1) }
    \cup UNION { {HiddenName(l), ReluName(l)} : l \in 0..(n - 2) }

NamesCollide ==
    \/ inputVar = outputVar
    \/ inputVar \in GeneratedNames(Len(weights))
    \/ outputVar \in GeneratedNames(Len(weights))

\* C5: when a caller-supplied name collides with a generated name or with
\* the other caller-supplied name, no graph is built and no file written, the
\* call ends with a name-collision error, and no built graph has a tensor
\* name with two producers.
C5_NameCollisionRejected ==
    /\ model.made => SingleAssignment(model)
    /\ (NamesCollide /\ Len(weights) > 0) =>
        /\ ~model.made
        /\ disk = {}
        /\ (Finished /\ ShapeInvariant(weights, biases)) => outcome.kind = "NameCollision"

\* C6: when the reader reports a missing file, the call ends by raising
\* FileNotFoundError to its caller and nothing is saved.
C6_MissingFileRaises ==
    (Finished /\ readResult = "FileNotFoundError") =>
        /\ outcome.kind = "FileNotFoundError"
        /\ saves = 0
        /\ disk = {}

\* C7: the file is saved at most once, and only after a successful read of a
\* model that satisfies the shape invariants and after the nodes and
\* initializers of every layer were assembled into the model; a call that
\* failed before that point attempted no save.
C7_SaveOnlyAfterAssembly ==
    /\ saves <= 1
    /\ Cardinality(disk) <= saves
    /\ saves = 1 =>
        /\ EndsWithNnet(nnetFile)
        /\ readResult = "ok"
        /\ Len(weights) >= 1
        /\ ShapeInvariant(weights, biases)
        /\ model.made
        /\ Len(model.nodes) = 3 * Len(weights) - 1
        /\ Len(model.initializer) = 2 * Len(weights)
    /\ (\/ ~EndsWithNnet(nnetFile)
        \/ readResult \in {"FileNotFoundError", "Exception"}
        \/ ~ShapeInvariant(weights, biases)) => saves = 0
    /\ \A f \in disk : f.content = model /\ f.path = onnxFile

C7_Witness == saves = 1 /\ Len(weights) = 2 /\ Cardinality(disk) = 1

\* C8 as written: with normalization requested a built graph has a clamp
\* node between the declared input and layer 0's MatMul.
C8_ClampNodesPresent ==
    (model.made /\ normalizeNetwork) =>
        \E k \in 1..Len(model.nodes) :
            /\ model.nodes[k].op \in {"Clip", "Min", "Max"}
            /\ inputVar \in Range(model.nodes[k].inputs)

\* C8 amended: with normalization requested the arrays come from
\* normalizeNNet and the built graph is the plain stack: only MatMul, Add
\* and Relu nodes, the first of them layer 0's MatMul reading the declared
\* input directly.
C8_NoClampNodes ==
    (model.made /\ normalizeNetwork) =>
        /\ reader = "normalizeNNet"
        /\ \A k \in 1..Len(model.nodes) : model.nodes[k].op \in {"MatMul", "Add", "Relu"}
        /\ model.nodes[1].op = "MatMul"
        /\ model.nodes[1].inputs[1] = inputVar
        /\ model.inputs[1].name = inputVar

C8_Witness == model.made /\ normalizeNetwork /\ Len(model.nodes) = 5

\* what makes a conversion fail, stated on the inputs and the environment
ConversionFailed ==
    \/ ~EndsWithNnet(nnetFile)
    \/ readResult \in {"FileNotFoundError", "Exception"}
    \/ Len(weights) = 0
    \/ ~ShapeInvariant(weights, biases)
    \/ saves = 1 /\ disk = {}

ModelSaved == \E f \in disk : f.path = onnxFile /\ f.content.made

\* C9 as written: once main has run the conversion, the process ends with
\* exit code 1 on every failure of the conversion and with exit code 0 only
\* when the model was saved.
C9_ExitCodes ==
    (pc = "exit" /\ outcome # Running) =>
        /\ ConversionFailed => exitCode = 1
        /\ exitCode = 0 => ModelSaved

\* C9 amended: once main has run the conversion, the process ends with a
\* non-zero status on every failure of the conversion: 1, or 120 when the
\* interpreter cannot flush stdout or stderr at shutdown; it ends with
\* status 0 only when the model was saved and main returned normally.
C9_ExitStatus ==
    (pc = "exit" /\ outcome # Running) =>
        /\ exitCode \in {0, 1, 120}
        /\ exitCode = 120 <=> flushFailed
        /\ ConversionFailed => exitCode = (IF flushFailed THEN 120 ELSE 1)
        /\ exitCode = 0 => (ModelSaved /\ exitVia = "return")

C9_Witness ==
    /\ pc = "exit"
    /\ readResult = "FileNotFoundError"
    /\ exitCode = 1
    /\ exitVia = "SystemExit"

\* C10: a model that breaks a shape invariant is rejected with a mismatch
\* error naming the first broken layer and no graph is built; a model that
\* satisfies the invariants passes validation.
C10_ShapeValidation ==
    (readResult = "ok" /\ Len(weights) > 0) =>
        /\ (Finished /\ BrokenLayers(weights, biases) # {}) =>
            /\ outcome.kind \in {"ValueError:Dimension mismatch",
                                 "ValueError:Bias dimension mismatch"}
            /\ outcome.layer \in BrokenLayers(weights, biases)
            /\ \A l \in BrokenLayers(weights, biases) : outcome.layer <= l
        /\ BrokenLayers(weights, biases) # {} => (~model.made /\ nodes = << >>)
        /\ BrokenLayers(weights, biases) = {} =>
            /\ outcome.kind \notin {"ValueError:Dimension mismatch",
                                    "ValueError:Bias dimension mismatch"}
            /\ Finished => model.made

C10_Witness ==
    /\ Finished
    /\ outcome.kind = "ValueError:Bias dimension mismatch"
    /\ outcome.layer = 1

====
